---- MODULE Spec2Model ----
(***************************************************************************)
(* Model of the youtube-roc8 dashboard: the youtube-api edge function      *)
(* (supabase/functions/youtube-api/index.ts) and the browser-side client   *)
(* that calls it (makeYouTubeRequest and its wrappers).                    *)
(*                                                                         *)
(* JavaScript values are modelled as follows.  A string is a TLA+ string;  *)
(* `null` and `undefined` are the markers Null and Undefined.  A JSON      *)
(* value is a record tagged by t; a body on the wire is a text record      *)
(* tagged by kind, so that parsing and serialising are real conversions.   *)
(***************************************************************************)
EXTENDS Integers, Sequences, FiniteSets, TLC

\* ------------------------------------------------------------------ bounds
NumVideoIds == 1
NumCommentIds == 1
\* handler invocations and other store requests in one behaviour of a panel
MaxOps == 3
\* handler invocations of one panel that may be awaiting at the same time
MaxInFlight == 2
\* panels of the dashboard that are mounted in one behaviour
MaxPanels == 1

\* ------------------------------------------------------- JavaScript values
Null == "<null>"
Undefined == "<undefined>"

\* `!x` for the string-or-missing values the handler tests
Falsy(x) == x \in {Null, Undefined, ""}

\* `${x}` inside a template literal
TemplateStr(x) == IF x = Null THEN "null" ELSE IF x = Undefined THEN "undefined" ELSE x

VideoIds == {"vid" \o ToString(i) : i \in 1..NumVideoIds}
CommentIds == {"cmt" \o ToString(i) : i \in 1..NumCommentIds}

Err(name, message) == [name |-> name, message |-> message]

\* ------------------------------------------------------------ JSON values
JUndefined == [t |-> "undefined"]
JNull == [t |-> "null"]
JString(s) == [t |-> "string", s |-> s]
JErrorObject(m) == [t |-> "object", message |-> m]
JObject(e, has, its) == [t |-> "object", error |-> e, hasItems |-> has, items |-> its]

\* body texts on the wire
EmptyText == [kind |-> "empty"]
HtmlText == [kind |-> "html"]
JsonText(v, p) == [kind |-> "json", val |-> v, pretty |-> p]

\* Response.json() / Request.json(): parse the body text
ParseJson(text) ==
  CASE text.kind = "empty" -> [ok |-> FALSE, err |-> Err("SyntaxError", "Unexpected end of JSON input")]
    [] text.kind = "html" -> [ok |-> FALSE, err |-> Err("SyntaxError", "Unexpected token < in JSON at position 0")]
    [] OTHER -> [ok |-> TRUE, val |-> text.val]

\* JSON.stringify: the compact serialisation of a value
JsonStringify(v) == JsonText(v, FALSE)

\* -------------------------------------------------------- the edge function
YOUTUBE_BASE_URL == "https://www.googleapis.com/youtube/v3"

ApiKeys == {Undefined, "", "AIzaKey"}

Methods == {"OPTIONS", "GET", "POST", "DELETE", "PUT"}
Actions == {Null, "video-details", "comments", "post-comment", "delete-comment",
            "update-video", "list-playlists"}
VideoIdParams == {Null, ""} \cup VideoIds
CommentIdParams == {Null} \cup CommentIds

BodyObjects ==
  {[t |-> "object", accessToken |-> a, text |-> x, title |-> x, description |-> x] :
     a \in {Undefined, "ya29"}, x \in {Undefined, "words"}}
RequestBodies ==
  {EmptyText, HtmlText} \cup {JsonText(v, FALSE) : v \in {JNull} \cup BodyObjects}

Requests ==
  [method : Methods, action : Actions, videoId : VideoIdParams,
   commentId : CommentIdParams, body : RequestBodies]

\* what the upstream can answer to one outbound call
UpstreamVideo(v) ==
  [id |-> v, title |-> "Real title", description |-> "Real description",
   thumbnail |-> "https://i.ytimg.com/vi/" \o v \o "/hqdefault.jpg",
   publishedAt |-> "2024-01-01T00:00:00Z", channelTitle |-> "Real Channel",
   viewCount |-> "10", likeCount |-> "2", commentCount |-> "1",
   privacyStatus |-> "private"]
UpstreamValues ==
  {JNull}
  \cup {JObject(e, FALSE, <<>>) :
          e \in {JString("invalid_grant"), JErrorObject(Undefined), JErrorObject(""),
                 JErrorObject("commentNotFound")}}
  \cup {JObject(JUndefined, FALSE, <<>>), JObject(JUndefined, TRUE, <<>>)}
  \cup {JObject(JUndefined, TRUE, <<UpstreamVideo(v)>>) : v \in VideoIds}
UpstreamTexts ==
  {EmptyText, HtmlText} \cup {JsonText(v, p) : v \in UpstreamValues, p \in BOOLEAN}
UpstreamOutcomes ==
  {[t |-> "rejected", err |-> Err("TypeError", "fetch failed")]}
  \cup {[t |-> "response", ok |-> k, body |-> b] : k \in BOOLEAN, b \in UpstreamTexts}

\* results of a piece of handler code
Throw(e) == [t |-> "throw", err |-> e]
Fetch(c) == [t |-> "fetch", call |-> c]
Respond(r) == [t |-> "respond", resp |-> r]

OutboundCall(url, method, bearer, body) ==
  [url |-> url, method |-> method, bearer |-> bearer, body |-> body]
NoBody == [t |-> "undefined"]

\* `const { accessToken, ... } = await req.json()`
ReadBody(req) ==
  LET p == ParseJson(req.body) IN
  IF ~p.ok THEN Throw(p.err)
  ELSE IF p.val.t = "null"
       THEN Throw(Err("TypeError", "Cannot destructure property 'accessToken' of 'null'"))
       ELSE [t |-> "value", val |-> p.val]

\* case 'video-details' / case 'comments', without the videoId check
ReadActionUnchecked(req, key) ==
  Fetch(OutboundCall(
    YOUTUBE_BASE_URL
      \o (IF req.action = "video-details" THEN "/videos?id=" ELSE "/commentThreads?videoId=")
      \o TemplateStr(req.videoId)
      \o (IF req.action = "video-details" THEN "&part=snippet,statistics,status&key="
          ELSE "&part=snippet,replies&key=")
      \o key,
    "GET", Undefined, NoBody))

\* case 'video-details' / case 'comments'
ReadAction(req, key) ==
  IF Falsy(req.videoId) THEN Throw(Err("Error", "Video ID is required"))
  ELSE Fetch(OutboundCall(
         YOUTUBE_BASE_URL
           \o (IF req.action = "video-details" THEN "/videos?id=" ELSE "/commentThreads?videoId=")
           \o req.videoId
           \o (IF req.action = "video-details" THEN "&part=snippet,statistics,status&key="
               ELSE "&part=snippet,replies&key=")
           \o key,
         "GET", Undefined, NoBody))

\* case 'post-comment'
PostComment(req) ==
  IF req.method # "POST" THEN Throw(Err("Error", "POST method required"))
  ELSE LET b == ReadBody(req) IN
       IF b.t = "throw" THEN b
       ELSE Fetch(OutboundCall(
              YOUTUBE_BASE_URL \o "/commentThreads?part=snippet", "POST",
              "Bearer " \o TemplateStr(b.val.accessToken),
              [t |-> "comment", videoId |-> req.videoId, textOriginal |-> b.val.text]))

\* case 'delete-comment', reading the body before it looks at the method
DeleteCommentBodyFirst(req) ==
  LET b == ReadBody(req) IN
  IF b.t = "throw" THEN b
  ELSE IF req.method # "DELETE" THEN Throw(Err("Error", "DELETE method required"))
  ELSE Fetch(OutboundCall(
         YOUTUBE_BASE_URL \o "/comments?id=" \o TemplateStr(req.commentId), "DELETE",
         "Bearer " \o TemplateStr(b.val.accessToken), NoBody))

\* case 'delete-comment'
DeleteComment(req) ==
  IF req.method # "DELETE" THEN Throw(Err("Error", "DELETE method required"))
  ELSE LET b == ReadBody(req) IN
       IF b.t = "throw" THEN b
       ELSE Fetch(OutboundCall(
              YOUTUBE_BASE_URL \o "/comments?id=" \o TemplateStr(req.commentId), "DELETE",
              "Bearer " \o TemplateStr(b.val.accessToken), NoBody))

\* case 'update-video'
UpdateVideo(req) ==
  IF req.method # "PUT" THEN Throw(Err("Error", "PUT method required"))
  ELSE LET b == ReadBody(req) IN
       IF b.t = "throw" THEN b
       ELSE Fetch(OutboundCall(
              YOUTUBE_BASE_URL \o "/videos?part=snippet", "PUT",
              "Bearer " \o TemplateStr(b.val.accessToken),
              [t |-> "video", id |-> req.videoId, title |-> b.val.title,
               description |-> b.val.description, categoryId |-> "22"]))

\* the switch without its default case: `response` stays undefined
RouteNoDefault(req, key) ==
  CASE req.action \in {"video-details", "comments"} -> ReadAction(req, key)
    [] req.action = "post-comment" -> PostComment(req)
    [] req.action = "delete-comment" -> DeleteComment(req)
    [] req.action = "update-video" -> UpdateVideo(req)
    [] OTHER -> Throw(Err("TypeError", "Cannot read properties of undefined (reading 'json')"))

\* the switch on `action`, up to the outbound fetch
Route(req, key) ==
  CASE req.action \in {"video-details", "comments"} -> ReadAction(req, key)
    [] req.action = "post-comment" -> PostComment(req)
    [] req.action = "delete-comment" -> DeleteComment(req)
    [] req.action = "update-video" -> UpdateVideo(req)
    [] OTHER -> Throw(Err("Error", "Invalid action"))

\* the try block with a key check that misses the empty string
TryBlockUndefinedKeyOnly(req, key) ==
  IF key = Undefined THEN Throw(Err("Error", "YouTube API key not configured"))
  ELSE Route(req, key)

\* the try block from its start to the first await on the upstream
TryBlock(req, key) ==
  IF Falsy(key) THEN Throw(Err("Error", "YouTube API key not configured"))
  ELSE Route(req, key)

\* `data.error?.message || 'YouTube API error'`
UpstreamErrorMessage(data) ==
  LET m == IF data.error.t = "object" THEN data.error.message ELSE Undefined
  IN IF Falsy(m) THEN "YouTube API error" ELSE m

\* the try block after the outbound fetch settled
AfterFetch(outcome) ==
  IF outcome.t = "rejected" THEN Throw(outcome.err)
  ELSE LET p == ParseJson(outcome.body) IN
       IF ~p.ok THEN Throw(p.err)
       ELSE IF ~outcome.ok
            THEN IF p.val.t = "null"
                 THEN Throw(Err("TypeError", "Cannot read properties of null (reading 'error')"))
                 ELSE Throw(Err("Error", UpstreamErrorMessage(p.val)))
            ELSE Respond([status |-> 200, cors |-> TRUE, body |-> JsonStringify(p.val)])

\* a catch block that handles only the errors the handler raised itself
CatchOwnErrorsOnly(err) ==
  IF err.name = "Error"
  THEN [status |-> 400, cors |-> TRUE,
        body |-> JsonStringify(JObject(JString(err.message), FALSE, <<>>))]
  ELSE [status |-> 500, cors |-> FALSE, body |-> HtmlText]

\* the catch block
Catch(err) ==
  [status |-> 400, cors |-> TRUE,
   body |-> JsonStringify(JObject(JString(err.message), FALSE, <<>>))]

PreflightResponse == [status |-> 200, cors |-> TRUE, body |-> EmptyText]
NoResponse == [status |-> 0, cors |-> FALSE, body |-> EmptyText]
NoRequest == [method |-> "-", action |-> Null, videoId |-> Null, commentId |-> Null,
              body |-> EmptyText]
NoOutcome == [t |-> "none"]

\* ------------------------------------------------------ the browser client
\* messages of the TypeError a browser's fetch rejects with when the request
\* could not be transported (Chromium, Firefox, WebKit)
TransportMessages ==
  {"Failed to fetch", "NetworkError when attempting to fetch resource.", "Load failed"}

\* `error.message.includes('fetch')`
IncludesFetch(m) ==
  m \in {"Failed to fetch", "NetworkError when attempting to fetch resource.", "fetch failed"}

ClientFns == {"getVideoDetails", "getVideoComments", "postComment", "deleteComment", "updateVideo"}
MutatingFns == {"postComment", "deleteComment", "updateVideo"}
ClientCalls ==
  [fn : ClientFns, videoId : {""} \cup VideoIds, commentId : CommentIds,
   text : {"words"}, accessToken : {"ya29"}]
NoCall == [fn |-> "-", videoId |-> "", commentId |-> "", text |-> "", accessToken |-> ""]

\* the URLSearchParams and RequestInit each exported function builds
BuildRequest(c) ==
  CASE c.fn = "getVideoDetails" ->
         [method |-> "GET", action |-> "video-details", videoId |-> c.videoId,
          commentId |-> Null, body |-> EmptyText]
    [] c.fn = "getVideoComments" ->
         [method |-> "GET", action |-> "comments", videoId |-> c.videoId,
          commentId |-> Null, body |-> EmptyText]
    [] c.fn = "postComment" ->
         [method |-> "POST", action |-> "post-comment", videoId |-> c.videoId,
          commentId |-> Null,
          body |-> JsonStringify([t |-> "object", accessToken |-> c.accessToken,
                                  text |-> c.text, title |-> Undefined,
                                  description |-> Undefined])]
    [] c.fn = "deleteComment" ->
         [method |-> "DELETE", action |-> "delete-comment", videoId |-> Null,
          commentId |-> c.commentId,
          body |-> JsonStringify([t |-> "object", accessToken |-> c.accessToken,
                                  text |-> Undefined, title |-> Undefined,
                                  description |-> Undefined])]
    [] OTHER ->
         [method |-> "PUT", action |-> "update-video", videoId |-> c.videoId,
          commentId |-> Null,
          body |-> JsonStringify([t |-> "object", accessToken |-> c.accessToken,
                                  text |-> Undefined, title |-> c.text,
                                  description |-> c.text])]

MockVideo(videoId) ==
  [id |-> videoId, title |-> "Sample YouTube Video",
   description |-> "This is a sample video description.",
   thumbnail |-> "https://img.youtube.com/vi/" \o TemplateStr(videoId) \o "/hqdefault.jpg",
   publishedAt |-> "<now>", channelTitle |-> "Sample Channel",
   viewCount |-> "1234567", likeCount |-> "12345", commentCount |-> "567",
   privacyStatus |-> "public"]
MockComment ==
  [id |-> "sample-comment-1", textDisplay |-> "This is a sample comment.",
   authorDisplayName |-> "Sample User", publishedAt |-> "<now>", likeCount |-> 5,
   totalReplyCount |-> 0]

getMockData(params) ==
  IF params.action = "video-details" THEN JObject(JUndefined, TRUE, <<MockVideo(params.videoId)>>)
  ELSE IF params.action = "comments" THEN JObject(JUndefined, TRUE, <<MockComment>>)
  ELSE JObject(JUndefined, TRUE, <<>>)

Return(v) == [t |-> "return", val |-> v]

\* `new Error(error.error || 'YouTube API request failed')`
EnvelopeMessage(e) ==
  CASE e.t = "string" -> IF e.s = "" THEN "YouTube API request failed" ELSE e.s
    [] e.t = "object" -> "[object Object]"
    [] OTHER -> "YouTube API request failed"

\* the try block of makeYouTubeRequest, given how its fetch settled
ClientTry(settled) ==
  IF settled.t = "rejected" THEN Throw(settled.err)
  ELSE LET p == ParseJson(settled.resp.body) IN
       IF settled.resp.status # 200
       THEN IF ~p.ok THEN Throw(p.err)
            ELSE IF p.val.t = "null"
                 THEN Throw(Err("TypeError", "Cannot read properties of null (reading 'error')"))
                 ELSE Throw(Err("Error", EnvelopeMessage(p.val.error)))
       ELSE IF ~p.ok THEN Throw(p.err) ELSE Return(p.val)

\* a catch block that looks at the message only, not at the error's class
ClientCatchMessageOnly(err, params) ==
  IF IncludesFetch(err.message)
  THEN Return(getMockData(params))
  ELSE Throw(err)

\* the catch block of makeYouTubeRequest
ClientCatch(err, params) ==
  IF err.name = "TypeError" /\ IncludesFetch(err.message)
  THEN Return(getMockData(params))
  ELSE Throw(err)

makeYouTubeRequest(params, settled) ==
  LET r == ClientTry(settled) IN
  IF r.t = "throw" THEN ClientCatch(r.err, params) ELSE r

\* what each exported function does with makeYouTubeRequest's result
ClientResult(c, settled) ==
  LET r == makeYouTubeRequest(BuildRequest(c), settled) IN
  IF r.t = "throw" THEN r
  ELSE CASE c.fn = "getVideoDetails" ->
              IF r.val.t = "null"
              THEN Throw(Err("TypeError", "Cannot read properties of null (reading 'items')"))
              ELSE IF ~r.val.hasItems
              THEN Throw(Err("TypeError", "Cannot read properties of undefined (reading '0')"))
              ELSE IF r.val.items = <<>> THEN Return([t |-> "undefined"])
              ELSE Return([t |-> "video", video |-> r.val.items[1]])
         [] c.fn = "getVideoComments" ->
              IF r.val.t = "null"
              THEN Throw(Err("TypeError", "Cannot read properties of null (reading 'items')"))
              ELSE Return([t |-> "array", items |-> r.val.items])
         [] OTHER -> Return([t |-> "data", data |-> r.val])

NoResult == [t |-> "none"]

\* ---------------------------------------------------------- the data store
\* notes and event_logs of the migration, with their row-level policies
Users == {"user1", "user2"}
PanelUser == "user1"
OtherUser == "user2"
PanelVideo == "vid1"

NoteId(n) == "note" \o ToString(n)

\* a row of CREATE TABLE notes: id and the two timestamps take their defaults
NewNote(id, fields, now) ==
  [id |-> id, user_id |-> fields.user_id, video_id |-> fields.video_id,
   content |-> fields.content, created_at |-> now, updated_at |-> now]

\* policies "Users can ... own notes": auth.uid() = user_id
PolicySelect(caller, r) == caller = r.user_id
PolicyInsert(caller, r) == caller = r.user_id
PolicyUpdateOpen(caller, r) == TRUE
PolicyUpdate(caller, r) == caller = r.user_id
PolicyDelete(caller, r) == caller = r.user_id

\* the notes table without its trigger
LeaveUpdatedAt(r, now) == r
\* trigger update_notes_updated_at / update_updated_at_column()
TouchUpdatedAt(r, now) == [r EXCEPT !.updated_at = now]

\* what the store client hands back as `error`; whether the object is an
\* instance of Error depends on the client library's version
StoreError(isError, message) == [isError |-> isError, message |-> message]
RlsViolation(k) == StoreError(k, "new row violates row-level security policy for table \"notes\"")
NoSingleRow(k) == StoreError(k, "JSON object requested, multiple (or no) rows returned")
Outage(k) == StoreError(k, "TypeError: Failed to fetch")
NoData == [id |-> Null]

\* insert(fields).select().single()
StoreInsert(rows, caller, fields, id, now, k) ==
  LET r == NewNote(id, fields, now) IN
  IF PolicyInsert(caller, r)
  THEN [ok |-> TRUE, rows |-> rows \cup {r}, data |-> r]
  ELSE [ok |-> FALSE, rows |-> rows, error |-> RlsViolation(k)]

\* update({content}).eq('id', id).select().single()
StoreUpdate(rows, caller, id, content, now, k) ==
  LET hit == {r \in rows : r.id = id /\ PolicyUpdate(caller, r)}
      new(r) == TouchUpdatedAt([r EXCEPT !.content = content], now)
      ok == \A r \in hit : PolicyUpdate(caller, new(r))
      after == (rows \ hit) \cup {new(r) : r \in hit}
  IN IF ~ok THEN [ok |-> FALSE, rows |-> rows, error |-> RlsViolation(k)]
     ELSE IF Cardinality(hit) = 1
     THEN [ok |-> TRUE, rows |-> after, data |-> new(CHOOSE r \in hit : TRUE)]
     ELSE [ok |-> FALSE, rows |-> after, error |-> NoSingleRow(k)]

\* delete().eq('id', id)
StoreDelete(rows, caller, id) ==
  [ok |-> TRUE, rows |-> {r \in rows : ~(r.id = id /\ PolicyDelete(caller, r))}]

\* order('created_at', { ascending: false })
RECURSIVE OrderByCreatedDesc(_)
OrderByCreatedDesc(rows) ==
  IF rows = {} THEN <<>>
  ELSE LET top == CHOOSE r \in rows : \A q \in rows : q.created_at <= r.created_at
       IN <<top>> \o OrderByCreatedDesc(rows \ {top})

\* select('*').eq('video_id', v).eq('user_id', u).order(...)
StoreSelect(rows, caller, v, u) ==
  OrderByCreatedDesc({r \in rows : PolicySelect(caller, r) /\ r.video_id = v /\ r.user_id = u})

\* the rows a caller can read at all
StoreSelectAll(rows, caller) == {r \in rows : PolicySelect(caller, r)}

\* ------------------------------------------------------------- event logger
LogEntry(u, type, op) == [user_id |-> u, event_type |-> type, op |-> op]

\* a logger that writes its row twice
logEventTwice(log, u, type, op, written) ==
  IF u = Null THEN log
  ELSE IF written THEN Append(Append(log, LogEntry(u, type, op)), LogEntry(u, type, op))
  ELSE log

\* a logger without the `if (!user) return` line
logEventWithoutUserCheck(log, u, type, op, written) ==
  IF written THEN Append(log, LogEntry(u, type, op)) ELSE log

\* logEvent: a no-op without a user; a write that fails (rejected or thrown)
\* is swallowed.  `written` is whether the store accepted the insert.
logEvent(log, u, type, op, written) ==
  IF u = Null THEN log
  ELSE IF written THEN Append(log, LogEntry(u, type, op))
  ELSE log

\* ------------------------------------------------------------- notes panel
\* text typed into the textareas, and String.prototype.trim on it
Inputs == {"  ", "improve pacing", " cut intro "}
Trim(x) ==
  CASE x = "  " -> ""
    [] x = " cut intro " -> "cut intro"
    [] OTHER -> x

\* the same test with an empty fallback
ErrorMessageNoFallback(err, fallback) == IF err.isError THEN err.message ELSE ""

\* `err instanceof Error ? err.message : fallback`
ErrorMessage(err, fallback) == IF err.isError THEN err.message ELSE fallback

Ids(seq) == {seq[i].id : i \in 1..Len(seq)}
ReplaceById(seq, id, row) == [i \in 1..Len(seq) |-> IF seq[i].id = id THEN row ELSE seq[i]]
\* a filter that keeps every element
RemoveByIdKeepsAll(seq, id) == seq
RemoveById(seq, id) == SelectSeq(seq, LAMBDA n : n.id # id)

\* a handler invocation that is awaiting: its arguments and the state its
\* closure captured when it was invoked
Op(id, kind, target, content, captured) ==
  [id |-> id, kind |-> kind, target |-> target, content |-> content,
   captured |-> captured, phase |-> "store", tag |-> ""]

\* ------------------------------------------- comments and video panel values
\* useAuth().user.email of the signed-in user; an account may have none
Emails == {Undefined, "user1@example.com"}

\* a comment thread as the upstream returns it, written by `author`
UpstreamComment(author) ==
  [id |-> "cmt1", textDisplay |-> "Great video", authorDisplayName |-> author,
   publishedAt |-> "2024-01-02T00:00:00Z", likeCount |-> 1, totalReplyCount |-> 0]

\* `user.email || 'You'`
AuthorName(email) == IF Falsy(email) THEN "You" ELSE email

\* `mock-${Date.now()}`
MockId(ms) == "mock-" \o ToString(ms)

\* the mockComment object of handlePostComment
SyntheticComment(ms, text, email) ==
  [id |-> MockId(ms), textDisplay |-> text, authorDisplayName |-> AuthorName(email),
   publishedAt |-> "<now>", likeCount |-> 0, totalReplyCount |-> 0]

\* the Delete button of a comment is rendered for
\* `authorDisplayName === user?.email`
DeleteShown(c, u, email) == c.authorDisplayName = (IF u = Null THEN Undefined ELSE email)

\* how the fetch of a panel's read can settle: transport failures, and the
\* responses the edge function or the gateway in front of it returns
PanelFetchOutcomes(items) ==
  {[t |-> "rejected", err |-> Err("TypeError", m)] : m \in TransportMessages}
  \cup {[t |-> "response", resp |-> r] :
          r \in {[status |-> 200, cors |-> TRUE,
                  body |-> JsonStringify(JObject(JUndefined, TRUE, items))],
                 [status |-> 200, cors |-> TRUE,
                  body |-> JsonStringify(JObject(JUndefined, TRUE, <<>>))],
                 Catch(Err("Error", "YouTube API error")),
                 [status |-> 502, cors |-> FALSE, body |-> HtmlText]}}

PanelCall(fn, v) ==
  [fn |-> fn, videoId |-> v, commentId |-> "", text |-> "", accessToken |-> ""]

\* the same test yielding a message for plain Error objects only
ThrownMessageErrorOnly(err, fallback) == IF err.name = "Error" THEN err.message ELSE ""

\* `err instanceof Error ? err.message : fallback` for what a client function
\* throws: Error, TypeError and SyntaxError objects
ThrownMessage(err, fallback) ==
  IF err.name \in {"Error", "TypeError", "SyntaxError"} THEN err.message ELSE fallback

\* the same read with optional chaining, `data?.snippet?.title`
SnippetTitleOptional(data) ==
  IF data.t = "video" THEN Return(data.video.title) ELSE Return(Undefined)

\* `video.snippet.title` / `data.snippet.title` on what getVideoDetails returned
SnippetTitle(data) ==
  IF data.t = "video" THEN Return(data.video.title)
  ELSE Throw(Err("TypeError", "Cannot read properties of undefined (reading 'snippet')"))

NoVideo == [t |-> "null"]

VARIABLES
  apiKey,     \* YOUTUBE_API_KEY, read once when the function is loaded
  pc,         \* handler position: "idle", "upstream" (awaiting fetch), "responded"
  req,        \* the request being served
  outbound,   \* the outbound calls made while serving req
  upstream,   \* how the upstream settled the outbound call
  resp,       \* the response returned for req
  cpc,        \* client position: "idle", "fetching", "awaiting", "done"
  call,       \* the exported client function being run and its arguments
  settled,    \* how the client's fetch settled
  cres,       \* what the client function returned or raised
  user,       \* useAuth().user of the panels: a user id or Null
  videoId,    \* the videoId prop the panels are rendered with
  store,      \* rows of the notes table
  clock,      \* the store's now()
  nextId,     \* supply of gen_random_uuid()
  otherSeen,  \* rows the other user's last read returned
  eventLog,   \* rows of the event_logs table, in insertion order
  inflight,   \* the panel's handler invocations that are awaiting
  opCount,    \* handler invocations and other store requests so far
  mounted,    \* the panel's mount effect ran
  notes,      \* NotesSection state: notes
  loading,    \* NotesSection state: loading
  error,      \* NotesSection state: error
  adding,     \* NotesSection state: adding
  email,      \* useAuth().user.email
  wall,       \* the browser's Date.now()
  cMounted,   \* CommentsSection's mount effect ran
  comments,   \* CommentsSection state: comments
  cLoading,   \* CommentsSection state: loading
  cError,     \* CommentsSection state: error
  posting,    \* CommentsSection state: posting
  vMounted,   \* VideoDetailsCard's mount effect ran
  video,      \* VideoDetailsCard state: video
  vLoading,   \* VideoDetailsCard state: loading
  vError,     \* VideoDetailsCard state: error
  edMounted,  \* VideoEditor's mount effect ran
  edVideo,    \* VideoEditor state: video
  title,      \* VideoEditor state: title
  description,\* VideoEditor state: description
  edLoading,  \* VideoEditor state: loading
  saving,     \* VideoEditor state: saving
  edError,    \* VideoEditor state: error
  success     \* VideoEditor state: success

proxyVars == <<pc, req, outbound, upstream, resp>>
clientVars == <<cpc, call, settled, cres>>
storeVars == <<store, clock, nextId, otherSeen>>
sharedVars == <<user, videoId, eventLog, inflight, opCount, mounted>>
notesVars == <<notes, loading, error, adding>>
commentsVars == <<email, wall, cMounted, comments, cLoading, cError, posting>>
detailsVars == <<vMounted, video, vLoading, vError>>
editorVars == <<edMounted, edVideo, title, description, edLoading, saving, edError, success>>
videoVars == <<commentsVars, detailsVars, editorVars>>
panelVars == <<storeVars, sharedVars, notesVars, videoVars>>
edgeVars == <<apiKey, pc, req, outbound, upstream, resp, cpc, call, settled, cres>>
vars == <<apiKey, pc, req, outbound, upstream, resp, cpc, call, settled, cres, panelVars>>

InitialNote ==
  [id |-> NoteId(0), user_id |-> PanelUser, video_id |-> PanelVideo,
   content |-> "first note", created_at |-> 0, updated_at |-> 0]

\* CommentsSection, VideoDetailsCard and VideoEditor before their mount effects
VideoPanelsInit ==
  /\ email = "user1@example.com"
  /\ wall = 1
  /\ cMounted = FALSE
  /\ comments = <<>>
  /\ cLoading = FALSE
  /\ cError = ""
  /\ posting = FALSE
  /\ vMounted = FALSE
  /\ video = NoVideo
  /\ vLoading = FALSE
  /\ vError = ""
  /\ edMounted = FALSE
  /\ edVideo = NoVideo
  /\ title = ""
  /\ description = ""
  /\ edLoading = FALSE
  /\ saving = FALSE
  /\ edError = ""
  /\ success = ""

\* the panels before their mount effects, over an empty store
PanelInit ==
  /\ user = PanelUser
  /\ videoId = PanelVideo
  /\ store = {}
  /\ clock = 1
  /\ nextId = 1
  /\ otherSeen = {}
  /\ eventLog = <<>>
  /\ inflight = {}
  /\ opCount = 0
  /\ mounted = FALSE
  /\ notes = <<>>
  /\ loading = FALSE
  /\ error = ""
  /\ adding = FALSE
  /\ VideoPanelsInit

Init ==
  /\ apiKey \in ApiKeys
  /\ pc = "idle"
  /\ req = NoRequest
  /\ outbound = <<>>
  /\ upstream = NoOutcome
  /\ resp = NoResponse
  /\ cpc = "idle"
  /\ call = NoCall
  /\ settled = NoOutcome
  /\ cres = NoResult
  /\ PanelInit

\* Deno.serve handler, from the request's arrival to its first await on the
\* upstream (or to its response when it never reaches the upstream)
Serve(r) ==
  /\ pc = "idle"
  /\ req' = r
  /\ upstream' = NoOutcome
  /\ IF r.method = "OPTIONS"
     THEN /\ resp' = PreflightResponse
          /\ outbound' = <<>>
          /\ pc' = "responded"
     ELSE LET s == TryBlock(r, apiKey) IN
          IF s.t = "fetch"
          THEN /\ outbound' = <<s.call>>
               /\ resp' = NoResponse
               /\ pc' = "upstream"
          ELSE /\ outbound' = <<>>
               /\ resp' = Catch(s.err)
               /\ pc' = "responded"
  /\ UNCHANGED apiKey

\* the handler resumes when the outbound fetch settles
UpstreamSettles(o) ==
  /\ pc = "upstream"
  /\ upstream' = o
  /\ LET s == AfterFetch(o) IN
     resp' = IF s.t = "respond" THEN s.resp ELSE Catch(s.err)
  /\ pc' = "responded"
  /\ UNCHANGED <<apiKey, req, outbound>>

\* the response was delivered; the stateless function awaits the next request
Finish ==
  /\ pc = "responded"
  /\ pc' = "idle"
  /\ req' = NoRequest
  /\ outbound' = <<>>
  /\ upstream' = NoOutcome
  /\ resp' = NoResponse
  /\ UNCHANGED apiKey

\* a request sent to the function by any HTTP client
DirectRequest(r) ==
  /\ cpc = "idle"
  /\ Serve(r)
  /\ UNCHANGED clientVars
  /\ UNCHANGED panelVars

DirectUpstreamSettles(o) ==
  /\ UpstreamSettles(o)
  /\ UNCHANGED clientVars
  /\ UNCHANGED panelVars

DirectFinish ==
  /\ cpc = "idle"
  /\ Finish
  /\ UNCHANGED clientVars
  /\ UNCHANGED panelVars

\* a panel calls one of the exported client functions; its fetch is issued
ClientCall(c) ==
  /\ cpc = "idle"
  /\ pc = "idle"
  /\ call' = c
  /\ cpc' = "fetching"
  /\ settled' = NoOutcome
  /\ cres' = NoResult
  /\ UNCHANGED <<apiKey, proxyVars>>
  /\ UNCHANGED panelVars

\* the fetch rejects: the request could not be transported
ClientFetchRejected(m) ==
  /\ cpc = "fetching"
  /\ LET o == [t |-> "rejected", err |-> Err("TypeError", m)] IN
     /\ settled' = o
     /\ cres' = ClientResult(call, o)
  /\ cpc' = "done"
  /\ UNCHANGED <<apiKey, proxyVars, call>>
  /\ UNCHANGED panelVars

\* the request reaches the edge function
ClientRequestArrives ==
  /\ cpc = "fetching"
  /\ Serve(BuildRequest(call))
  /\ cpc' = "awaiting"
  /\ UNCHANGED <<call, settled, cres>>
  /\ UNCHANGED panelVars

\* the function's response reaches the client, which decodes it
ClientReceives ==
  /\ cpc = "awaiting"
  /\ pc = "responded"
  /\ LET o == [t |-> "response", resp |-> resp] IN
     /\ settled' = o
     /\ cres' = ClientResult(call, o)
  /\ cpc' = "done"
  /\ Finish
  /\ UNCHANGED call
  /\ UNCHANGED panelVars

\* the caller consumed the result
ClientDone ==
  /\ cpc = "done"
  /\ cpc' = "idle"
  /\ call' = NoCall
  /\ settled' = NoOutcome
  /\ cres' = NoResult
  /\ UNCHANGED <<apiKey, proxyVars>>
  /\ UNCHANGED panelVars

Next ==
  \/ \E r \in Requests : DirectRequest(r)
  \/ \E o \in UpstreamOutcomes : DirectUpstreamSettles(o)
  \/ DirectFinish
  \/ \E c \in ClientCalls : ClientCall(c)
  \/ \E m \in TransportMessages : ClientFetchRejected(m)
  \/ ClientRequestArrives
  \/ ClientReceives
  \/ ClientDone

Spec == Init /\ [][Next]_vars

\* =============================================================== NotesSection
\* the store transaction one awaiting handler asked for
NotesTransaction(op, k) ==
  CASE op.kind = "fetch" ->
         [ok |-> TRUE, rows |-> store, data |-> NoData,
          list |-> StoreSelect(store, user, op.target, user)]
    [] op.kind = "add" ->
         StoreInsert(store, user,
                     [user_id |-> user, video_id |-> op.target, content |-> op.content],
                     NoteId(nextId), clock, k)
    [] op.kind = "edit" -> StoreUpdate(store, user, op.target, op.content, clock, k)
    [] OTHER -> StoreDelete(store, user, op.target)

\* the part of each handler's try block after its await on the store
\* (fetchNotes, handleAddNote, handleEditNote, handleDeleteNote)
NotesTry(op, res) ==
  CASE op.kind = "fetch" -> [notes |-> res.list, tag |-> "notes_fetched"]
    [] op.kind = "add" -> [notes |-> <<res.data>> \o op.captured, tag |-> "note_added"]
    [] op.kind = "edit" ->
         [notes |-> ReplaceById(op.captured, op.target, res.data), tag |-> "note_updated"]
    [] OTHER -> [notes |-> RemoveById(op.captured, op.target), tag |-> "note_deleted"]

\* the catch blocks: the message shown and the event logged
NotesCatch(op, err) ==
  CASE op.kind = "fetch" ->
         [error |-> ErrorMessage(err, "Failed to fetch notes"), tag |-> "notes_fetch_failed"]
    [] op.kind = "add" ->
         [error |-> ErrorMessage(err, "Failed to add note"), tag |-> "note_add_failed"]
    [] op.kind = "edit" ->
         [error |-> ErrorMessage(err, "Failed to update note"), tag |-> "note_update_failed"]
    [] OTHER ->
         [error |-> ErrorMessage(err, "Failed to delete note"), tag |-> "note_delete_failed"]

CanStart == opCount < MaxOps /\ Cardinality(inflight) < MaxInFlight

\* a panel is rendered for the first time and its mount effect runs
PanelsMounted == Cardinality({i \in 1..4 : <<mounted, cMounted, vMounted, edMounted>>[i]})
CanMount == CanStart /\ PanelsMounted < MaxPanels

\* useEffect(() => { if (videoId && user) fetchNotes() }): fetchNotes up to
\* its await
NotesMount ==
  /\ ~mounted
  /\ user # Null
  /\ CanMount
  /\ mounted' = TRUE
  /\ loading' = TRUE
  /\ error' = ""
  /\ inflight' = inflight \cup {Op(opCount + 1, "fetch", videoId, "", notes)}
  /\ opCount' = opCount + 1
  /\ UNCHANGED <<edgeVars, videoVars, user, videoId, eventLog, notes, adding, storeVars>>

\* handleAddNote up to its await; the form is rendered when not loading and
\* its submit button is disabled while adding
NotesStartAdd(x) ==
  /\ mounted /\ ~loading /\ ~adding
  /\ Trim(x) # "" /\ user # Null
  /\ CanStart
  /\ adding' = TRUE
  /\ inflight' = inflight \cup {Op(opCount + 1, "add", videoId, Trim(x), notes)}
  /\ opCount' = opCount + 1
  /\ UNCHANGED <<edgeVars, videoVars, user, videoId, eventLog, mounted, notes, loading, error, storeVars>>

\* handleEditNote(noteId) up to its await, from the Save button of a note
NotesStartEdit(id, x) ==
  /\ mounted /\ ~loading
  /\ id \in Ids(notes)
  /\ Trim(x) # ""
  /\ CanStart
  /\ inflight' = inflight \cup {Op(opCount + 1, "edit", id, Trim(x), notes)}
  /\ opCount' = opCount + 1
  /\ UNCHANGED <<edgeVars, videoVars, user, videoId, eventLog, mounted, notesVars, storeVars>>

\* handleDeleteNote(noteId) up to its await, the confirm() accepted
NotesStartDelete(id) ==
  /\ mounted /\ ~loading
  /\ id \in Ids(notes)
  /\ CanStart
  /\ inflight' = inflight \cup {Op(opCount + 1, "delete", id, "", notes)}
  /\ opCount' = opCount + 1
  /\ UNCHANGED <<edgeVars, videoVars, user, videoId, eventLog, mounted, notesVars, storeVars>>

\* the store answers one awaiting handler, which runs to its await on
\* logEvent; `down` is the request failing before it reaches the table
NotesStoreAnswers(op, down, k) ==
  /\ op \in inflight
  /\ op.phase = "store"
  /\ LET res == IF down THEN [ok |-> FALSE, rows |-> store, error |-> Outage(k)]
                ELSE NotesTransaction(op, k)
     IN /\ store' = res.rows
        /\ clock' = IF down THEN clock ELSE clock + 1
        /\ nextId' = IF ~down /\ op.kind = "add" THEN nextId + 1 ELSE nextId
        /\ IF res.ok
           THEN /\ notes' = NotesTry(op, res).notes
                /\ error' = error
                /\ inflight' = (inflight \ {op})
                     \cup {[op EXCEPT !.phase = "log", !.tag = NotesTry(op, res).tag]}
           ELSE /\ notes' = notes
                /\ error' = NotesCatch(op, res.error).error
                /\ inflight' = (inflight \ {op})
                     \cup {[op EXCEPT !.phase = "log", !.tag = NotesCatch(op, res.error).tag]}
  /\ UNCHANGED <<edgeVars, videoVars, user, videoId, eventLog, opCount, mounted, loading, adding, otherSeen>>

\* the handler's logEvent settles and its finally block runs
NotesLogConcludes(op, written) ==
  /\ op \in inflight
  /\ op.kind \in {"fetch", "add", "edit", "delete"} /\ op.phase = "log"
  /\ eventLog' = logEvent(eventLog, user, op.tag, op.id, written)
  /\ loading' = IF op.kind = "fetch" THEN FALSE ELSE loading
  /\ adding' = IF op.kind = "add" THEN FALSE ELSE adding
  /\ inflight' = inflight \ {op}
  /\ UNCHANGED <<edgeVars, videoVars, user, videoId, opCount, mounted, notes, error, storeVars>>

\* another authenticated user sends requests of their own to the store,
\* naming any row and any owner
OtherInserts(owner) ==
  /\ opCount < MaxOps
  /\ LET res == StoreInsert(store, OtherUser,
                   [user_id |-> owner, video_id |-> PanelVideo, content |-> "theirs"],
                   NoteId(nextId), clock, TRUE)
     IN store' = res.rows
  /\ clock' = clock + 1
  /\ nextId' = nextId + 1
  /\ opCount' = opCount + 1
  /\ UNCHANGED <<edgeVars, videoVars, otherSeen, user, videoId, eventLog, inflight, mounted, notesVars>>

OtherUpdates(id) ==
  /\ opCount < MaxOps
  /\ store' = StoreUpdate(store, OtherUser, id, "theirs", clock, TRUE).rows
  /\ clock' = clock + 1
  /\ opCount' = opCount + 1
  /\ UNCHANGED <<edgeVars, videoVars, nextId, otherSeen, user, videoId, eventLog, inflight, mounted, notesVars>>

OtherDeletes(id) ==
  /\ opCount < MaxOps
  /\ store' = StoreDelete(store, OtherUser, id).rows
  /\ clock' = clock + 1
  /\ opCount' = opCount + 1
  /\ UNCHANGED <<edgeVars, videoVars, nextId, otherSeen, user, videoId, eventLog, inflight, mounted, notesVars>>

OtherReads ==
  /\ opCount < MaxOps
  /\ otherSeen' = StoreSelectAll(store, OtherUser)
  /\ clock' = clock + 1
  /\ opCount' = opCount + 1
  /\ UNCHANGED <<edgeVars, videoVars, store, nextId, user, videoId, eventLog, inflight, mounted, notesVars>>

StoredIds == {r.id : r \in store}

NotesInit ==
  /\ apiKey = "AIzaKey"
  /\ pc = "idle"
  /\ req = NoRequest
  /\ outbound = <<>>
  /\ upstream = NoOutcome
  /\ resp = NoResponse
  /\ cpc = "idle"
  /\ call = NoCall
  /\ settled = NoOutcome
  /\ cres = NoResult
  /\ user = PanelUser
  /\ videoId = PanelVideo
  /\ store \in {{}, {InitialNote}}
  /\ clock = 1
  /\ nextId = 1
  /\ otherSeen = {}
  /\ eventLog = <<>>
  /\ inflight = {}
  /\ opCount = 0
  /\ mounted = FALSE
  /\ notes = <<>>
  /\ loading = FALSE
  /\ error = ""
  /\ adding = FALSE
  /\ VideoPanelsInit

NotesNext ==
  \/ NotesMount
  \/ \E x \in Inputs : NotesStartAdd(x)
  \/ \E id \in Ids(notes), x \in Inputs : NotesStartEdit(id, x)
  \/ \E id \in Ids(notes) : NotesStartDelete(id)
  \/ \E op \in inflight, down \in BOOLEAN, k \in BOOLEAN :
       NotesStoreAnswers(op, down, k)
  \/ \E op \in inflight, written \in BOOLEAN :
       NotesLogConcludes(op, written)
  \/ \E owner \in Users : OtherInserts(owner)
  \/ \E id \in StoredIds : OtherUpdates(id)
  \/ \E id \in StoredIds : OtherDeletes(id)
  \/ OtherReads

SpecNotes == NotesInit /\ [][NotesNext]_vars

\* ============================================================ CommentsSection
\* a handler invocation that starts awaiting the client function or logEvent
PanelOp(id, kind, target, content, captured, phase, tag) ==
  [Op(id, kind, target, content, captured) EXCEPT !.phase = phase, !.tag = tag]

\* useEffect(() => { if (videoId) fetchComments() }): fetchComments up to its
\* await on getVideoComments
CommentsMount ==
  /\ ~cMounted
  /\ CanMount
  /\ cMounted' = TRUE
  /\ cLoading' = TRUE
  /\ cError' = ""
  /\ inflight' = inflight \cup {PanelOp(opCount + 1, "comments", videoId, "", comments, "client", "")}
  /\ opCount' = opCount + 1
  /\ UNCHANGED <<edgeVars, storeVars, notesVars, detailsVars, editorVars,
                 user, videoId, eventLog, mounted, email, wall, comments, posting>>

\* getVideoComments settles; fetchComments runs to its await on logEvent
CommentsFetchSettles(op, o) ==
  /\ op \in inflight
  /\ op.kind = "comments" /\ op.phase = "client"
  /\ LET r == ClientResult(PanelCall("getVideoComments", op.target), o) IN
     IF r.t = "return"
     THEN /\ comments' = r.val.items
          /\ cError' = cError
          /\ inflight' = (inflight \ {op})
               \cup {[op EXCEPT !.phase = "log", !.tag = "comments_fetched"]}
     ELSE /\ comments' = comments
          /\ cError' = ThrownMessage(r.err, "Failed to fetch comments")
          /\ inflight' = (inflight \ {op})
               \cup {[op EXCEPT !.phase = "log", !.tag = "comments_fetch_failed"]}
  /\ UNCHANGED <<edgeVars, storeVars, notesVars, detailsVars, editorVars,
                 user, videoId, eventLog, opCount, mounted, email, wall, cMounted, cLoading, posting>>

\* handlePostComment up to its await on logEvent('comment_attempted'); the
\* form is rendered when not loading and its button is disabled while posting
CommentsStartPost(x) ==
  /\ cMounted /\ ~cLoading /\ ~posting
  /\ Trim(x) # "" /\ user # Null
  /\ CanStart
  /\ posting' = TRUE
  /\ inflight' = inflight
       \cup {PanelOp(opCount + 1, "post", "", x, comments, "log", "comment_attempted")}
  /\ opCount' = opCount + 1
  /\ UNCHANGED <<edgeVars, storeVars, notesVars, detailsVars, editorVars,
                 user, videoId, eventLog, mounted, email, wall, cMounted, comments, cLoading, cError>>

\* handleDeleteComment(commentId) up to its await on
\* logEvent('comment_deleted'), from the Delete button of a comment
CommentsStartDelete(id) ==
  /\ cMounted /\ ~cLoading
  /\ \E i \in 1..Len(comments) :
       comments[i].id = id /\ DeleteShown(comments[i], user, email)
  /\ CanStart
  /\ inflight' = inflight
       \cup {PanelOp(opCount + 1, "cdelete", id, "", comments, "log", "comment_deleted")}
  /\ opCount' = opCount + 1
  /\ UNCHANGED <<edgeVars, storeVars, notesVars, detailsVars, editorVars,
                 user, videoId, eventLog, mounted, commentsVars>>

\* the handler's logEvent settles and the rest of the handler runs: the try
\* blocks of handlePostComment and handleDeleteComment cannot throw, so their
\* catch blocks never run.  `tick` is whether Date.now() has advanced by the
\* time the next handler reads it.
CommentsLogConcludes(op, written, tick) ==
  /\ op \in inflight
  /\ op.kind \in {"comments", "post", "cdelete"} /\ op.phase = "log"
  /\ op.kind # "post" => tick = 0
  /\ eventLog' = logEvent(eventLog, user, op.tag, op.id, written)
  /\ comments' =
       CASE op.kind = "post" ->
              <<SyntheticComment(wall, op.content, email)>> \o op.captured
         [] op.kind = "cdelete" -> RemoveById(op.captured, op.target)
         [] OTHER -> comments
  /\ wall' = wall + tick
  /\ posting' = IF op.kind = "post" THEN FALSE ELSE posting
  /\ cLoading' = IF op.kind = "comments" THEN FALSE ELSE cLoading
  /\ inflight' = inflight \ {op}
  /\ UNCHANGED <<edgeVars, storeVars, notesVars, detailsVars, editorVars,
                 user, videoId, opCount, mounted, email, cMounted, cError>>


\* =========================================================== VideoDetailsCard
\* useEffect(() => { if (videoId) fetchVideoDetails() }), up to the await on
\* getVideoDetails
DetailsMount ==
  /\ ~vMounted
  /\ CanMount
  /\ vMounted' = TRUE
  /\ vLoading' = TRUE
  /\ vError' = ""
  /\ inflight' = inflight \cup {PanelOp(opCount + 1, "details", videoId, "", <<>>, "client", "")}
  /\ opCount' = opCount + 1
  /\ UNCHANGED <<edgeVars, storeVars, notesVars, commentsVars, editorVars,
                 user, videoId, eventLog, mounted, video>>

\* getVideoDetails settles; setVideo(data) runs before the argument of
\* logEvent reads data.snippet.title
DetailsFetchSettles(op, o) ==
  /\ op \in inflight
  /\ op.kind = "details" /\ op.phase = "client"
  /\ LET r == ClientResult(PanelCall("getVideoDetails", op.target), o) IN
     IF r.t = "return" /\ SnippetTitle(r.val).t = "return"
     THEN /\ video' = r.val
          /\ vError' = vError
          /\ inflight' = (inflight \ {op})
               \cup {[op EXCEPT !.phase = "log", !.tag = "video_details_fetched"]}
     ELSE LET err == IF r.t = "return" THEN SnippetTitle(r.val).err ELSE r.err IN
          /\ video' = IF r.t = "return" THEN r.val ELSE video
          /\ vError' = ThrownMessage(err, "Failed to fetch video details")
          /\ inflight' = (inflight \ {op})
               \cup {[op EXCEPT !.phase = "log", !.tag = "video_details_fetch_failed"]}
  /\ UNCHANGED <<edgeVars, storeVars, notesVars, commentsVars, editorVars,
                 user, videoId, eventLog, opCount, mounted, vMounted, vLoading>>

\* logEvent settles and the finally block runs
DetailsLogConcludes(op, written) ==
  /\ op \in inflight
  /\ op.kind = "details" /\ op.phase = "log"
  /\ eventLog' = logEvent(eventLog, user, op.tag, op.id, written)
  /\ vLoading' = FALSE
  /\ inflight' = inflight \ {op}
  /\ UNCHANGED <<edgeVars, storeVars, notesVars, commentsVars, editorVars,
                 user, videoId, opCount, mounted, vMounted, video, vError>>

\* ================================================================ VideoEditor
EditorInputs == {"New title"}

EditorMount ==
  /\ ~edMounted
  /\ CanMount
  /\ edMounted' = TRUE
  /\ edLoading' = TRUE
  /\ edError' = ""
  /\ inflight' = inflight \cup {PanelOp(opCount + 1, "editor", videoId, "", <<>>, "client", "")}
  /\ opCount' = opCount + 1
  /\ UNCHANGED <<edgeVars, storeVars, notesVars, commentsVars, detailsVars,
                 user, videoId, eventLog, mounted, edVideo, title, description, saving, success>>

\* getVideoDetails settles; setVideo(data), setTitle(data.snippet.title) and
\* setDescription(data.snippet.description) run before logEvent
EditorFetchSettles(op, o) ==
  /\ op \in inflight
  /\ op.kind = "editor" /\ op.phase = "client"
  /\ LET r == ClientResult(PanelCall("getVideoDetails", op.target), o) IN
     IF r.t = "return" /\ SnippetTitle(r.val).t = "return"
     THEN /\ edVideo' = r.val
          /\ title' = r.val.video.title
          /\ description' = r.val.video.description
          /\ edError' = edError
          /\ inflight' = (inflight \ {op})
               \cup {[op EXCEPT !.phase = "log", !.tag = "video_editor_opened"]}
     ELSE LET err == IF r.t = "return" THEN SnippetTitle(r.val).err ELSE r.err IN
          /\ edVideo' = IF r.t = "return" THEN r.val ELSE edVideo
          /\ UNCHANGED <<title, description>>
          /\ edError' = ThrownMessage(err, "Failed to fetch video details")
          /\ inflight' = (inflight \ {op})
               \cup {[op EXCEPT !.phase = "log", !.tag = "video_editor_fetch_failed"]}
  /\ UNCHANGED <<edgeVars, storeVars, notesVars, commentsVars, detailsVars,
                 user, videoId, eventLog, opCount, mounted, edMounted, edLoading, saving, success>>

\* the title and description inputs' onChange; the form is rendered when not
\* loading and a video is held
EditorTypes(t, d) ==
  /\ edMounted /\ ~edLoading /\ edVideo.t = "video"
  /\ title' = t
  /\ description' = d
  /\ UNCHANGED <<edgeVars, storeVars, notesVars, commentsVars, detailsVars, sharedVars,
                 edMounted, edVideo, edLoading, saving, edError, success>>

\* handleSave up to its await on logEvent('video_update_attempted'); the
\* Save button is disabled while saving and while nothing was changed
EditorStartSave ==
  /\ edMounted /\ ~edLoading
  /\ edVideo.t = "video" /\ user # Null
  /\ ~saving
  /\ title # edVideo.video.title \/ description # edVideo.video.description
  /\ CanStart
  /\ saving' = TRUE
  /\ edError' = ""
  /\ success' = ""
  /\ inflight' = inflight
       \cup {PanelOp(opCount + 1, "save", title, description, <<edVideo>>, "log",
                     "video_update_attempted")}
  /\ opCount' = opCount + 1
  /\ UNCHANGED <<edgeVars, storeVars, notesVars, commentsVars, detailsVars,
                 user, videoId, eventLog, mounted, edMounted, edVideo, title, description, edLoading>>

\* a save that resets the counters of the snapshot
SavedVideoResetsCounters(v, t, d) ==
  [v EXCEPT !.video.title = t, !.video.description = d, !.video.viewCount = "0"]

\* setVideo({ ...video, snippet: { ...video.snippet, title, description } })
SavedVideo(v, t, d) == [v EXCEPT !.video.title = t, !.video.description = d]

\* the client function a fetching handler awaits
FnOf(kind) == IF kind = "comments" THEN "getVideoComments" ELSE "getVideoDetails"

\* the requests to the proxy that the panels' handlers are awaiting
ProxyRequests ==
  {BuildRequest(PanelCall(FnOf(op.kind), op.target)) : op \in {o \in inflight : o.phase = "client"}}

\* logEvent settles and the rest of the handler runs; the try block of
\* handleSave cannot throw, so its catch block never runs
EditorLogConcludes(op, written) ==
  /\ op \in inflight
  /\ op.kind \in {"editor", "save"} /\ op.phase = "log"
  /\ eventLog' = logEvent(eventLog, user, op.tag, op.id, written)
  /\ IF op.kind = "save"
     THEN /\ success' = "Video updated successfully!"
          /\ edVideo' = SavedVideo(op.captured[1], op.target, op.content)
          /\ saving' = FALSE
          /\ edLoading' = edLoading
     ELSE /\ edLoading' = FALSE
          /\ UNCHANGED <<success, edVideo, saving>>
  /\ inflight' = inflight \ {op}
  /\ UNCHANGED <<edgeVars, storeVars, notesVars, commentsVars, detailsVars,
                 user, videoId, opCount, mounted, edMounted, title, description, edError>>

\* setTimeout(() => setSuccess(''), 5000)
EditorSuccessExpires ==
  /\ success # ""
  /\ success' = ""
  /\ UNCHANGED <<edgeVars, storeVars, notesVars, commentsVars, detailsVars, sharedVars,
                 edMounted, edVideo, title, description, edLoading, saving, edError>>

\* ================================================================ the panels
\* the dashboard before any mount effect, apart from who is signed in and
\* what the notes table holds
PanelsBase ==
  /\ apiKey = "AIzaKey"
  /\ pc = "idle"
  /\ req = NoRequest
  /\ outbound = <<>>
  /\ upstream = NoOutcome
  /\ resp = NoResponse
  /\ cpc = "idle"
  /\ call = NoCall
  /\ settled = NoOutcome
  /\ cres = NoResult
  /\ videoId = PanelVideo
  /\ clock = 1
  /\ nextId = 1
  /\ otherSeen = {}
  /\ eventLog = <<>>
  /\ inflight = {}
  /\ opCount = 0
  /\ mounted = FALSE
  /\ notes = <<>>
  /\ loading = FALSE
  /\ error = ""
  /\ adding = FALSE
  /\ wall = 1
  /\ cMounted = FALSE
  /\ comments = <<>>
  /\ cLoading = FALSE
  /\ cError = ""
  /\ posting = FALSE
  /\ vMounted = FALSE
  /\ video = NoVideo
  /\ vLoading = FALSE
  /\ vError = ""
  /\ edMounted = FALSE
  /\ edVideo = NoVideo
  /\ title = ""
  /\ description = ""
  /\ edLoading = FALSE
  /\ saving = FALSE
  /\ edError = ""
  /\ success = ""

\* the four panels of the dashboard for one video, signed in or not
PanelsInit ==
  /\ PanelsBase
  /\ user \in {Null, PanelUser}
  /\ email = (IF user = Null THEN Undefined ELSE "user1@example.com")
  /\ store = {InitialNote}

\* the comments panel, signed in or not, with or without an e-mail address
CommentsInit ==
  /\ PanelsBase
  /\ user \in {Null, PanelUser}
  /\ email \in (IF user = Null THEN {Undefined} ELSE Emails)
  /\ store = {}

\* the comment threads and the video the upstream holds for a video id: each
\* video has threads of its own
CommentItems(v) ==
  IF v = PanelVideo THEN <<UpstreamComment("user1@example.com")>>
  ELSE <<[UpstreamComment("user1@example.com") EXCEPT !.id = "cmt2",
                                                        !.textDisplay = "Nice one"]>>
VideoItems(v) == <<UpstreamVideo(v)>>

CommentsNext ==
  \/ CommentsMount
  \/ \E op \in inflight : \E o \in PanelFetchOutcomes(CommentItems(op.target)) :
       CommentsFetchSettles(op, o)
  \/ \E x \in Inputs : CommentsStartPost(x)
  \/ \E id \in Ids(comments) : CommentsStartDelete(id)
  \/ \E op \in inflight, written \in BOOLEAN, tick \in {0, 1} :
       CommentsLogConcludes(op, written, tick)

SpecComments == CommentsInit /\ [][CommentsNext]_vars

PanelsNext ==
  \/ CommentsMount
  \/ \E op \in inflight : \E o \in PanelFetchOutcomes(CommentItems(op.target)) :
       CommentsFetchSettles(op, o)
  \/ \E x \in Inputs : CommentsStartPost(x)
  \/ \E id \in Ids(comments) : CommentsStartDelete(id)
  \/ \E op \in inflight, written \in BOOLEAN, tick \in {0, 1} :
       CommentsLogConcludes(op, written, tick)
  \/ DetailsMount
  \/ \E op \in inflight : \E o \in PanelFetchOutcomes(VideoItems(op.target)) :
       DetailsFetchSettles(op, o)
  \/ \E op \in inflight, written \in BOOLEAN : DetailsLogConcludes(op, written)
  \/ EditorMount
  \/ \E op \in inflight : \E o \in PanelFetchOutcomes(VideoItems(op.target)) :
       EditorFetchSettles(op, o)
  \/ \E t \in EditorInputs, d \in EditorInputs : EditorTypes(t, d)
  \/ EditorStartSave
  \/ \E op \in inflight, written \in BOOLEAN : EditorLogConcludes(op, written)
  \/ EditorSuccessExpires
  \/ NotesMount
  \/ \E x \in Inputs : NotesStartAdd(x)
  \/ \E id \in Ids(notes), x \in Inputs : NotesStartEdit(id, x)
  \/ \E id \in Ids(notes) : NotesStartDelete(id)
  \/ \E op \in inflight, down \in BOOLEAN : NotesStoreAnswers(op, down, TRUE)
  \/ \E op \in inflight, written \in BOOLEAN :
       NotesLogConcludes(op, written)

SpecPanels == PanelsInit /\ [][PanelsNext]_vars

\* ================================================== the active video changes
\* the video ids the panels can be rendered with
PanelVideos == {PanelVideo, "vid2"}

\* the fetch of each panel, in the order NotesSection, CommentsSection,
\* VideoDetailsCard, VideoEditor
FetchKinds == <<"fetch", "comments", "details", "editor">>

\* the panels whose effect runs again when the videoId prop changes (deps
\* `[videoId]`, and `[videoId, user]` with `if (videoId && user)` for notes)
Refetching ==
  {i \in 1..4 : <<mounted /\ user # Null, cMounted, vMounted, edMounted>>[i]}

\* the invocation of the panel's fetch function the effect makes for `v`
Refetch(i, v) ==
  PanelOp(opCount + Cardinality({j \in Refetching : j <= i}), FetchKinds[i], v, "",
          CASE i = 1 -> notes [] i = 2 -> comments [] OTHER -> <<>>,
          IF i = 1 THEN "store" ELSE "client", "")

\* the panels are rendered again with another videoId: every effect that
\* depends on it runs its fetch up to the await; nothing cancels the
\* invocations already awaiting
VideoChanges(v) ==
  /\ v # videoId
  /\ Refetching # {}
  /\ opCount + Cardinality(Refetching) <= MaxOps
  /\ Cardinality(inflight) + Cardinality(Refetching) <= MaxInFlight
  /\ videoId' = v
  /\ inflight' = inflight \cup {Refetch(i, v) : i \in Refetching}
  /\ opCount' = opCount + Cardinality(Refetching)
  /\ loading' = (loading \/ 1 \in Refetching)
  /\ error' = IF 1 \in Refetching THEN "" ELSE error
  /\ cLoading' = (cLoading \/ 2 \in Refetching)
  /\ cError' = IF 2 \in Refetching THEN "" ELSE cError
  /\ vLoading' = (vLoading \/ 3 \in Refetching)
  /\ vError' = IF 3 \in Refetching THEN "" ELSE vError
  /\ edLoading' = (edLoading \/ 4 \in Refetching)
  /\ edError' = IF 4 \in Refetching THEN "" ELSE edError
  /\ UNCHANGED <<edgeVars, storeVars, user, eventLog, mounted, notes, adding,
                 email, wall, cMounted, comments, posting, vMounted, video,
                 edMounted, edVideo, title, description, saving, success>>

SwitchNext ==
  \/ NotesMount
  \/ CommentsMount
  \/ DetailsMount
  \/ EditorMount
  \/ \E v \in PanelVideos : VideoChanges(v)
  \/ \E x \in Inputs : NotesStartAdd(x)
  \/ \E op \in inflight, down \in BOOLEAN : NotesStoreAnswers(op, down, TRUE)
  \/ \E op \in inflight, written \in BOOLEAN : NotesLogConcludes(op, written)
  \/ \E op \in inflight : \E o \in PanelFetchOutcomes(CommentItems(op.target)) :
       CommentsFetchSettles(op, o)
  \/ \E op \in inflight, written \in BOOLEAN : CommentsLogConcludes(op, written, 0)
  \/ \E op \in inflight : \E o \in PanelFetchOutcomes(VideoItems(op.target)) :
       DetailsFetchSettles(op, o)
  \/ \E op \in inflight, written \in BOOLEAN : DetailsLogConcludes(op, written)
  \/ \E op \in inflight : \E o \in PanelFetchOutcomes(VideoItems(op.target)) :
       EditorFetchSettles(op, o)
  \/ \E op \in inflight, written \in BOOLEAN : EditorLogConcludes(op, written)

SpecSwitch == PanelsInit /\ [][SwitchNext]_vars

\* ===================================================== the fetch of a panel
\* a panel's read settles: the store answers fetchNotes, the proxy call of
\* getVideoComments or getVideoDetails returns or fails
NotesFetchAnswered == \E op \in inflight, down, k \in BOOLEAN : NotesStoreAnswers(op, down, k)
CommentsFetchSettled ==
  \E op \in inflight : \E o \in PanelFetchOutcomes(CommentItems(op.target)) :
    CommentsFetchSettles(op, o)
DetailsFetchSettled ==
  \E op \in inflight : \E o \in PanelFetchOutcomes(VideoItems(op.target)) :
    DetailsFetchSettles(op, o)
EditorFetchSettled ==
  \E op \in inflight : \E o \in PanelFetchOutcomes(VideoItems(op.target)) :
    EditorFetchSettles(op, o)

\* the insert of logEvent settles and the finally block of the fetch runs
NotesFetchConcluded == \E op \in inflight, written \in BOOLEAN : NotesLogConcludes(op, written)
CommentsFetchConcluded ==
  \E op \in inflight, written \in BOOLEAN : CommentsLogConcludes(op, written, 0)
DetailsFetchConcluded == \E op \in inflight, written \in BOOLEAN : DetailsLogConcludes(op, written)
EditorFetchConcluded == \E op \in inflight, written \in BOOLEAN : EditorLogConcludes(op, written)

FetchNext ==
  \/ NotesMount
  \/ CommentsMount
  \/ DetailsMount
  \/ EditorMount
  \/ NotesFetchAnswered
  \/ CommentsFetchSettled
  \/ DetailsFetchSettled
  \/ EditorFetchSettled
  \/ NotesFetchConcluded
  \/ CommentsFetchConcluded
  \/ DetailsFetchConcluded
  \/ EditorFetchConcluded

\* every awaited call settles: the store's, the proxy's, and the insert of
\* logEvent, which is a store call as well
FetchFairness ==
  /\ WF_vars(NotesFetchAnswered) /\ WF_vars(NotesFetchConcluded)
  /\ WF_vars(CommentsFetchSettled) /\ WF_vars(CommentsFetchConcluded)
  /\ WF_vars(DetailsFetchSettled) /\ WF_vars(DetailsFetchConcluded)
  /\ WF_vars(EditorFetchSettled) /\ WF_vars(EditorFetchConcluded)

SpecFetch == PanelsInit /\ [][FetchNext]_vars /\ FetchFairness

\* ============================================================== what renders
\* `!video` for the video state: null before the fetch, undefined when the
\* client function returned no item
NoSnapshot(v) == v.t \in {"null", "undefined"}

Rendered(view, alert) == [view |-> view, alert |-> alert]

\* VideoDetailsCard: skeleton while loading, else the error block, else
\* nothing without a video, else the card
DetailsRender(v, isLoading, err) ==
  IF isLoading THEN Rendered("skeleton", "")
  ELSE IF err # "" THEN Rendered("error", err)
  ELSE IF NoSnapshot(v) THEN Rendered("nothing", "")
  ELSE Rendered("card", "")

\* CommentsSection and NotesSection: skeleton while loading, else the panel
\* with `{error && <div>...{error}</div>}` above the form and the list
ListRender(isLoading, err) ==
  IF isLoading THEN Rendered("skeleton", "")
  ELSE Rendered("panel", err)

\* VideoEditor: skeleton while loading, else the placeholder without a
\* video, else the form with its error block
EditorRender(v, isLoading, err) ==
  IF isLoading THEN Rendered("skeleton", "")
  ELSE IF NoSnapshot(v) THEN Rendered("placeholder", "")
  ELSE Rendered("form", err)

\* ================================================================ properties
KeyConfigured == ~Falsy(apiKey)
Responded == pc = "responded"
NoOutbound == outbound = <<>>

IsEnvelope(r) ==
  /\ r.body.kind = "json"
  /\ r.body.val.t = "object"
  /\ r.body.val.error.t = "string"
ErrorResponse(r, msg) ==
  /\ r.status = 400
  /\ IsEnvelope(r)
  /\ r.body.val.error.s = msg

MutatingActions == {"post-comment", "delete-comment", "update-video"}
RequiredMethod(a) ==
  CASE a = "post-comment" -> "POST"
    [] a = "delete-comment" -> "DELETE"
    [] OTHER -> "PUT"

\* C1: with no API key (unset or empty), every non-OPTIONS request, whatever
\* its action, method, parameters and body, is answered at once with 400
\* 'YouTube API key not configured' and no outbound call; an OPTIONS request
\* still gets the empty success response.
C1_KeyNotConfigured ==
  (pc # "idle" /\ ~KeyConfigured) =>
     /\ Responded
     /\ NoOutbound
     /\ IF req.method = "OPTIONS"
        THEN resp = PreflightResponse
        ELSE ErrorResponse(resp, "YouTube API key not configured")

C1_Witness ==
  /\ Responded /\ ~KeyConfigured
  /\ req.action = "post-comment" /\ req.method = "PUT"
  /\ ErrorResponse(resp, "YouTube API key not configured")

\* C2, as stated: a request for a mutating action whose method is not the
\* required one is answered with 400 and an error naming the required method,
\* without any outbound call.
C2_Original ==
  (Responded /\ req.action \in MutatingActions /\ req.method # RequiredMethod(req.action)) =>
     /\ ErrorResponse(resp, RequiredMethod(req.action) \o " method required")
     /\ NoOutbound

\* C2, amended: with the API key configured, a non-OPTIONS request for
\* post-comment, delete-comment or update-video whose method is not POST,
\* DELETE, PUT respectively is answered with 400 '<METHOD> method required',
\* whatever its body (the body is not read: an unparseable one changes
\* nothing), and no outbound call is made.
C2_WrongMethod ==
  (pc # "idle" /\ KeyConfigured /\ req.method # "OPTIONS"
     /\ req.action \in MutatingActions /\ req.method # RequiredMethod(req.action)) =>
     /\ Responded
     /\ ErrorResponse(resp, RequiredMethod(req.action) \o " method required")
     /\ NoOutbound

C2_Witness ==
  /\ Responded /\ KeyConfigured
  /\ req.action = "delete-comment" /\ req.method = "POST" /\ req.body = HtmlText
  /\ ErrorResponse(resp, "DELETE method required")

\* C3, as stated: with the key configured, a request with action
\* video-details or comments and a missing or empty videoId is answered with
\* 400 'Video ID is required' and no outbound call.
C3_Original ==
  (Responded /\ KeyConfigured /\ req.action \in {"video-details", "comments"}
     /\ Falsy(req.videoId)) =>
     /\ ErrorResponse(resp, "Video ID is required")
     /\ NoOutbound

\* C3, amended: the same for every request that is not an OPTIONS preflight.
C3_VideoIdRequired ==
  (pc # "idle" /\ KeyConfigured /\ req.method # "OPTIONS"
     /\ req.action \in {"video-details", "comments"} /\ Falsy(req.videoId)) =>
     /\ Responded
     /\ ErrorResponse(resp, "Video ID is required")
     /\ NoOutbound

C3_Witness ==
  /\ Responded /\ KeyConfigured /\ req.method = "GET"
  /\ req.action = "comments" /\ req.videoId = ""
  /\ ErrorResponse(resp, "Video ID is required")

C5_Original ==
  (Responded /\ KeyConfigured
     /\ req.action \notin {"video-details", "comments"} \cup MutatingActions) =>
     /\ ErrorResponse(resp, "Invalid action")
     /\ NoOutbound

\* C5, amended: the same whatever the method except OPTIONS, which is
\* answered with the empty success response before the action is looked at.
C5_InvalidAction ==
  (pc # "idle" /\ KeyConfigured /\ req.method # "OPTIONS"
     /\ req.action \notin {"video-details", "comments"} \cup MutatingActions) =>
     /\ Responded
     /\ ErrorResponse(resp, "Invalid action")
     /\ NoOutbound

C5_Witness ==
  /\ Responded /\ KeyConfigured /\ req.method = "DELETE"
  /\ req.action = "list-playlists" /\ req.videoId \in VideoIds
  /\ ErrorResponse(resp, "Invalid action")

\* the error message an upstream body carries, if any
CarriesMessage(body) ==
  /\ body.kind = "json"
  /\ body.val.t = "object"
  /\ body.val.error.t = "object"
  /\ ~Falsy(body.val.error.message)

\* C6: when the upstream answers the outbound call with a non-success status,
\* the response is 400 with the upstream's error message when its body carries
\* one and 'YouTube API error' otherwise.
C6_UpstreamError ==
  (Responded /\ upstream.t = "response" /\ ~upstream.ok) =>
     ErrorResponse(resp, IF CarriesMessage(upstream.body)
                         THEN upstream.body.val.error.message
                         ELSE "YouTube API error")

\* C7: when the upstream answers the outbound call with a success status (a
\* JSON body, or for delete-comment an empty acknowledgement), the response is
\* a success carrying the upstream body: the same JSON value, or empty.
C7_SuccessPassThrough ==
  (Responded /\ upstream.t = "response" /\ upstream.ok
     /\ (upstream.body.kind = "json"
         \/ (upstream.body.kind = "empty" /\ req.action = "delete-comment"))) =>
     /\ resp.status = 200
     /\ resp.body.kind = upstream.body.kind
     /\ resp.body.kind = "json" => ParseJson(resp.body) = ParseJson(upstream.body)

\* C8: every non-OPTIONS request is answered either with a success carrying
\* the upstream's body or with 400 and the envelope {error: string}; no body,
\* transport failure or upstream response makes the handler fail.
C8_NoEscape ==
  (Responded /\ req.method # "OPTIONS") =>
     \/ /\ resp.status = 200
        /\ upstream.t = "response" /\ upstream.ok
        /\ ParseJson(upstream.body).ok
        /\ ParseJson(resp.body) = ParseJson(upstream.body)
     \/ /\ resp.status = 400
        /\ IsEnvelope(resp)

C8_Witness ==
  /\ Responded /\ KeyConfigured
  /\ req.action = "post-comment" /\ req.method = "POST" /\ req.body = HtmlText
  /\ resp.status = 400 /\ IsEnvelope(resp)

VideoFields ==
  {"id", "title", "description", "thumbnail", "publishedAt", "channelTitle",
   "viewCount", "likeCount", "commentCount", "privacyStatus"}

\* C9: when the client's request cannot be transported, getVideoDetails
\* returns a fully populated placeholder snapshot whose id is the requested
\* videoId and whose privacy status is 'public'; it does not raise.  Stated
\* for the non-empty video ids a panel passes.
C9_PlaceholderOnTransportFailure ==
  (cpc = "done" /\ settled.t = "rejected" /\ call.fn = "getVideoDetails"
     /\ call.videoId \in VideoIds) =>
     /\ cres.t = "return"
     /\ cres.val.t = "video"
     /\ DOMAIN cres.val.video = VideoFields
     /\ \A f \in VideoFields : cres.val.video[f] \notin {Null, Undefined}
     /\ cres.val.video.id = call.videoId
     /\ cres.val.video.privacyStatus = "public"

\* C10: a transport failure of postComment, deleteComment or updateVideo is
\* raised to the caller; the call never returns a value.
C10_MutationsPropagate ==
  (cpc = "done" /\ settled.t = "rejected" /\ call.fn \in MutatingFns) =>
     cres.t = "throw"

\* the catch block of makeYouTubeRequest answered with placeholder data
FallbackTaken ==
  /\ cpc = "done"
  /\ LET r == ClientTry(settled) IN
     /\ r.t = "throw"
     /\ ClientCatch(r.err, BuildRequest(call)).t = "return"

\* C11: once the client received a response from the edge function, no
\* placeholder data is used: a non-success response makes the call raise an
\* Error whose message is the envelope's error field ('YouTube API request
\* failed' when the field is empty); placeholder data is returned only when
\* the fetch was rejected.
C11_NoFallbackAfterResponse ==
  /\ (cpc = "done" /\ settled.t = "response") =>
       /\ ~FallbackTaken
       /\ settled.resp.status # 200 =>
            cres = Throw(Err("Error",
                     IF IsEnvelope(settled.resp) /\ settled.resp.body.val.error.s # ""
                     THEN settled.resp.body.val.error.s
                     ELSE "YouTube API request failed"))
  /\ FallbackTaken => settled.t = "rejected"

C11_Witness ==
  /\ cpc = "done" /\ settled.t = "response" /\ settled.resp.status = 400
  /\ cres = Throw(Err("Error", "fetch failed"))

\* ------------------------------------------------------- notes panel, store
NotesSuccessTags == {"notes_fetched", "note_added", "note_updated", "note_deleted"}
NotesFailureTags ==
  {"notes_fetch_failed", "note_add_failed", "note_update_failed", "note_delete_failed"}

\* in this step the store answered handler op, with a tag among tags
Answered(op, tags) ==
  /\ op \in inflight
  /\ op.phase = "store"
  /\ \E o \in inflight' : o.id = op.id /\ o.phase = "log" /\ o.tag \in tags

\* in this step handler op finished
Concluded(op) ==
  /\ op \in inflight
  /\ op.phase = "log"
  /\ \A o \in inflight' : o.id # op.id

OpIds(ops) == {o.id : o \in ops}

\* C12: the local note sequence changes only when the store acknowledged a
\* request; an acknowledged insert puts the returned row in front of the
\* sequence and leaves the rest as it is, an acknowledged update replaces
\* the element with that id by the returned row and leaves the others and
\* the order, an acknowledged delete removes the elements with that id.
C12_ConfirmedMutations ==
  [][ /\ notes' # notes => \E op \in inflight : Answered(op, NotesSuccessTags)
      /\ \A op \in inflight :
           Answered(op, NotesSuccessTags) =>
             CASE op.kind = "add" ->
                    /\ Len(notes') = Len(notes) + 1
                    /\ Tail(notes') = notes
                    /\ Head(notes') \in store' \ store
               [] op.kind = "edit" ->
                    /\ Len(notes') = Len(notes)
                    /\ \A i \in 1..Len(notes) :
                         IF notes[i].id = op.target
                         THEN notes'[i] \in store' /\ notes'[i].id = op.target
                         ELSE notes'[i] = notes[i]
               [] op.kind = "delete" -> notes' = RemoveById(notes, op.target)
               [] OTHER -> TRUE
    ]_vars

\* C13: when the store rejects a fetch, add, edit or delete, the handler
\* keeps the note sequence, sets a non-empty error message and starts no
\* other request; when it finishes, nothing is in flight for it any more and
\* the loading / adding flag it set is cleared.
C13_FailureIsContained ==
  [][ \A op \in inflight :
        /\ Answered(op, NotesFailureTags) =>
             /\ notes' = notes
             /\ error' # ""
             /\ OpIds(inflight') = OpIds(inflight)
        /\ (Concluded(op) /\ op.tag \in NotesFailureTags) =>
             /\ inflight' = inflight \ {op}
             /\ notes' = notes
             /\ error' = error
             /\ op.kind = "fetch" => ~loading'
             /\ op.kind = "add" => ~adding'
    ]_vars

C13_Witness ==
  /\ mounted /\ inflight = {} /\ ~loading /\ ~adding
  /\ error = "Failed to add note"
  /\ notes # <<>>

\* C14: a row appears in the notes table with a fresh identifier and equal
\* created_at and updated_at; an acknowledged edit stores the new content,
\* sets updated_at past created_at and keeps id, user_id, video_id and
\* created_at; every row has updated_at >= created_at.  (Each transaction
\* reads a later now() than the ones before it.)
C14_Timestamps ==
  /\ [](\A r \in store : r.updated_at >= r.created_at)
  /\ [][ /\ \A r \in store' :
              r.id \notin StoredIds =>
                /\ r.created_at = r.updated_at
                /\ r.id = NoteId(nextId)
         /\ \A r \in store : \A q \in store' :
              (q.id = r.id /\ q # r) =>
                /\ q.user_id = r.user_id /\ q.video_id = r.video_id
                /\ q.created_at = r.created_at
                /\ q.updated_at > q.created_at
                /\ q.updated_at > r.updated_at
         /\ \A op \in inflight :
              (op.kind = "edit" /\ Answered(op, {"note_updated"})) =>
                \E r \in store : \E q \in store' :
                  /\ r.id = op.target /\ q.id = op.target
                  /\ q.content = op.content
                  /\ q.updated_at > q.created_at
                  /\ q.updated_at > r.updated_at
       ]_vars

C14_Witness ==
  /\ \E op \in inflight : op.kind = "edit" /\ op.tag = "note_updated"
  /\ \E r \in store : r.user_id = PanelUser /\ r.updated_at > r.created_at

\* the step is a request of the panel's user / of the other user
PanelStep == inflight' # inflight
OtherStep == inflight' = inflight /\ opCount' # opCount
OwnedBy(rows, u) == {r \in rows : r.user_id = u}

\* C19: a new row's owner is the caller that inserted it; a request of one
\* user neither changes nor removes nor returns a row owned by the other,
\* whatever row identifier or owner it names.
C19_OwnerIsolation ==
  /\ [](/\ \A i \in 1..Len(notes) : notes[i].user_id = PanelUser
        /\ \A r \in otherSeen : r.user_id = OtherUser)
  /\ [][ /\ PanelStep =>
              /\ OwnedBy(store', OtherUser) = OwnedBy(store, OtherUser)
              /\ \A r \in store' \ store : r.user_id = user
         /\ OtherStep =>
              /\ OwnedBy(store', PanelUser) = OwnedBy(store, PanelUser)
              /\ \A r \in store' \ store : r.user_id = OtherUser
       ]_vars

C19_Witness ==
  /\ OwnedBy(store, PanelUser) # {}
  /\ otherSeen # {}
  /\ opCount = MaxOps

\* C20: once the initial fetch and every later add, edit and delete were
\* acknowledged and none is in flight, the local sequence holds exactly the
\* rows the store holds for the panel's video and user.
C20_LocalMatchesStore ==
  (mounted /\ inflight = {} /\ error = "") =>
     /\ {notes[i] : i \in 1..Len(notes)} = {r \in store : r.user_id = user /\ r.video_id = PanelVideo}
     /\ Len(notes) = Cardinality({notes[i] : i \in 1..Len(notes)})

\* ------------------------------------------------------------ comments panel
\* no comments request of the panel starts in this step and no call of the
\* client reaches the proxy
NoProxyRequest ==
  /\ {o \in inflight' : o.phase = "client"} \subseteq inflight
  /\ UNCHANGED edgeVars

SyntheticIds == {MockId(n) : n \in 0..(MaxOps + 1)}

\* C15: when handlePostComment finishes for a non-blank text and a signed-in
\* user, the comment sequence is the sequence held before with exactly one
\* synthetic comment put in front of it, carrying the entered text and a
\* client-generated identifier; no request goes to the proxy.
C15_PostInsertsOne ==
  [][ \A op \in inflight :
        (Concluded(op) /\ op.kind = "post") =>
          /\ Len(comments') = Len(comments) + 1
          /\ Tail(comments') = comments
          /\ Head(comments').textDisplay = op.content
          /\ Head(comments').id \in SyntheticIds
          /\ NoProxyRequest
    ]_vars

SuccessTags ==
  NotesSuccessTags
  \cup {"comments_fetched", "comment_attempted", "comment_deleted",
        "video_details_fetched", "video_editor_opened", "video_update_attempted"}
FailureTags ==
  NotesFailureTags
  \cup {"comments_fetch_failed", "comment_post_failed", "comment_delete_failed",
        "video_details_fetch_failed", "video_editor_fetch_failed", "video_update_failed"}

\* the success and the failure tag of each kind of panel action
TagsFor(kind) ==
  CASE kind = "fetch" -> {"notes_fetched", "notes_fetch_failed"}
    [] kind = "add" -> {"note_added", "note_add_failed"}
    [] kind = "edit" -> {"note_updated", "note_update_failed"}
    [] kind = "delete" -> {"note_deleted", "note_delete_failed"}
    [] kind = "comments" -> {"comments_fetched", "comments_fetch_failed"}
    [] kind = "post" -> {"comment_attempted", "comment_post_failed"}
    [] kind = "cdelete" -> {"comment_deleted", "comment_delete_failed"}
    [] kind = "details" -> {"video_details_fetched", "video_details_fetch_failed"}
    [] kind = "editor" -> {"video_editor_opened", "video_editor_fetch_failed"}
    [] OTHER -> {"video_update_attempted", "video_update_failed"}

\* the error state of the panel an action of this kind belongs to
ErrorOf(kind) ==
  CASE kind \in {"fetch", "add", "edit", "delete"} -> error
    [] kind \in {"comments", "post", "cdelete"} -> cError
    [] kind = "details" -> vError
    [] OTHER -> edError

\* in this step the store or the client function answered handler op, which
\* chose a tag among tags
Outcome(op, tags) ==
  /\ op \in inflight
  /\ op.phase \in {"store", "client"}
  /\ \E o \in inflight' : o.id = op.id /\ o.phase = "log" /\ o.tag \in tags

EntriesOf(id) == {i \in 1..Len(eventLog) : eventLog[i].op = id}

\* C17 as it is written: every panel action that has concluded has exactly
\* one event-log entry.
C17_Original ==
  \A id \in 1..opCount :
    id \notin OpIds(inflight) => Cardinality(EntriesOf(id)) = 1

\* C17: a panel action that concludes adds at most one event-log entry, and
\* none when no caller is signed in (or when the log write does not reach the
\* table); an entry is attributed to the signed-in caller and carries the tag
\* the action chose: its failure tag, with a non-empty error state, when the
\* action failed, its success tag, with the error state untouched, when it
\* succeeded; no action has two entries.
C17_AtMostOneEntry ==
  /\ [](\A i \in 1..Len(eventLog) :
          /\ user # Null /\ eventLog[i].user_id = user
          /\ EntriesOf(eventLog[i].op) = {i})
  /\ [][ \A op \in inflight :
           /\ Outcome(op, FailureTags) => ErrorOf(op.kind)' # ""
           /\ Outcome(op, SuccessTags) => ErrorOf(op.kind)' = ErrorOf(op.kind)
           /\ Concluded(op) =>
                /\ op.tag \in TagsFor(op.kind)
                /\ eventLog' \in {eventLog, Append(eventLog, LogEntry(user, op.tag, op.id))}
                /\ user = Null => eventLog' = eventLog
       ]_vars

\* three actions concluded and each has its entry, a failed one among them
C17_Witness ==
  /\ inflight = {} /\ opCount = 3 /\ Len(eventLog) = 3
  /\ \E i \in 1..3 : eventLog[i].event_type \in FailureTags
  /\ \E i \in 1..3 : eventLog[i].event_type \in SuccessTags

\* C18: when a handler's logEvent settles, nothing is raised into the handler
\* and no panel's error state or fetched data changes: without a signed-in
\* user nothing is written, and whether or not the write reached the table
\* the handler finishes the same way (the post inserts its comment, the
\* delete removes its comment, the save shows its success, the flags of the
\* action are cleared); the failure tags of post, delete and save are never
\* chosen.
C18_LoggerIsContained ==
  /\ [](/\ \A op \in inflight :
             op.kind \in {"post", "cdelete", "save"} => op.tag \in SuccessTags
        /\ \A i \in 1..Len(eventLog) :
             eventLog[i].event_type \notin
               {"comment_post_failed", "comment_delete_failed", "video_update_failed"})
  /\ [][ \A op \in inflight :
           Concluded(op) =>
             /\ user = Null => eventLog' = eventLog
             /\ inflight' = inflight \ {op}
             /\ UNCHANGED <<error, cError, vError, edError, notes, video>>
             /\ comments' =
                  CASE op.kind = "post" ->
                         <<SyntheticComment(wall, op.content, email)>> \o op.captured
                    [] op.kind = "cdelete" -> RemoveById(op.captured, op.target)
                    [] OTHER -> comments
             /\ success' = IF op.kind = "save" THEN "Video updated successfully!" ELSE success
             /\ op.kind # "save" => edVideo' = edVideo
             /\ op.kind = "fetch" => ~loading'
             /\ op.kind = "add" => ~adding'
             /\ op.kind = "comments" => ~cLoading'
             /\ op.kind = "post" => ~posting'
             /\ op.kind = "details" => ~vLoading'
             /\ op.kind = "editor" => ~edLoading'
             /\ op.kind = "save" => ~saving'
       ]_vars

\* the log writes of the fetch and of a post both failed, and the post's
\* comment is in the sequence
C18_Witness ==
  /\ user # Null /\ cMounted /\ inflight = {} /\ opCount >= 2
  /\ eventLog = <<>>
  /\ Ids(comments) \cap SyntheticIds # {}
  /\ ~posting /\ cError = ""

\* --------------------------------------------------------------- video panels
\* the proxy's answer 200 { items: [] }
EmptyItemList ==
  [t |-> "response",
   resp |-> [status |-> 200, cors |-> TRUE,
             body |-> JsonStringify(JObject(JUndefined, TRUE, <<>>))]]

\* C28: when the video-details request is answered 200 with an empty item
\* list, fetchVideoDetails holds no snapshot, sets a non-empty error message
\* and chooses the tag video_details_fetch_failed; when it finishes, the
\* panel is not loading, still holds no snapshot and still shows the error,
\* and the only entry it may have written carries that tag.
C28_EmptyListIsAnError ==
  /\ []((vMounted /\ video.t = "undefined") => vError # "")
  /\ [](\A op \in inflight : op.kind = "details" => EntriesOf(op.id) = {})
  /\ [][ \A op \in inflight :
           /\ (op.kind = "details" /\ DetailsFetchSettles(op, EmptyItemList)) =>
                /\ video'.t # "video"
                /\ vError' # ""
                /\ \E o \in inflight' :
                     o.id = op.id /\ o.tag = "video_details_fetch_failed"
           /\ (Concluded(op) /\ op.kind = "details"
                 /\ op.tag = "video_details_fetch_failed") =>
                /\ ~vLoading'
                /\ video' = video /\ vError' = vError /\ vError # ""
                /\ eventLog' \in
                     {eventLog,
                      Append(eventLog, LogEntry(user, "video_details_fetch_failed", op.id))}
       ]_vars

C28_Witness ==
  /\ vMounted /\ ~vLoading /\ inflight = {}
  /\ video.t = "undefined"
  /\ vError = "Cannot read properties of undefined (reading 'snippet')"
  /\ \E i \in 1..Len(eventLog) : eventLog[i].event_type = "video_details_fetch_failed"

\* ------------------------------------------------------ comment identifiers
\* C27: the identifiers in the comment sequence are pairwise distinct, and
\* a delete that finishes removes exactly one comment.
C27_DistinctIds ==
  /\ [](\A i, j \in 1..Len(comments) : comments[i].id = comments[j].id => i = j)
  /\ [][ \A op \in inflight :
           (Concluded(op) /\ op.kind = "cdelete" /\ op.captured = comments) =>
             Len(comments') = Len(comments) - 1
       ]_vars

\* ----------------------------------------------------------- error state
Mutations == {"add", "edit", "delete", "post", "cdelete"}

\* C26: when a note add, edit or delete or a comment post or delete finishes
\* with its success tag, the error state of its panel is empty.
C26_SuccessClearsError ==
  [][ \A op \in inflight :
        (Concluded(op) /\ op.kind \in Mutations /\ op.tag \in SuccessTags) =>
          ErrorOf(op.kind)' = ""
    ]_vars

\* ------------------------------------------------------------- the controls
Controlled == {"add", "edit", "delete", "post", "cdelete", "save"}

\* the control that invokes a handler: the form's submit button, or the
\* Save / Delete button of one note or comment
Control(op) ==
  IF op.kind \in {"edit", "delete", "cdelete"} THEN <<op.kind, op.target>>
  ELSE <<op.kind, "">>

\* C22: no note add, note edit, note delete, comment post, comment delete or
\* video save starts from a control whose earlier invocation has not
\* finished.
C22_NoSecondInvocation ==
  [][ \A o \in inflight' :
        (o.id \notin OpIds(inflight) /\ o.kind \in Controlled) =>
          \A q \in inflight : Control(q) # Control(o)
    ]_vars

\* ------------------------------------------------------------ inline alerts
\* C24: in each of the four panels, when the error state is non-empty and
\* the panel is not loading, the rendered output contains the error message.
C24_ErrorIsRendered ==
  /\ (vError # "" /\ ~vLoading) => DetailsRender(video, vLoading, vError).alert = vError
  /\ (cError # "" /\ ~cLoading) => ListRender(cLoading, cError).alert = cError
  /\ (edError # "" /\ ~edLoading) => EditorRender(edVideo, edLoading, edError).alert = edError
  /\ (error # "" /\ ~loading) => ListRender(loading, error).alert = error

\* ---------------------------------------------------- local-only mutations
LocalOnly == {"post", "cdelete", "save"}

\* C23: the panels send only video-details and comments requests to the
\* proxy; a comment post, a comment delete and a video save never await a
\* client function, and when one finishes it has sent nothing to the proxy
\* and changed nothing in the notes table, the notes panel or the details
\* card; a save leaves every field of the editor's snapshot but title and
\* description as it was.
C23_LocalOnly ==
  /\ [](/\ \A r \in ProxyRequests :
             r.method = "GET" /\ r.action \in {"video-details", "comments"}
        /\ \A op \in inflight : op.kind \in LocalOnly => op.phase = "log")
  /\ [][ \A op \in inflight :
           (Concluded(op) /\ op.kind \in LocalOnly) =>
             /\ NoProxyRequest
             /\ UNCHANGED <<store, notes, video>>
             /\ op.kind # "save" => UNCHANGED edVideo
             /\ op.kind = "save" =>
                  /\ UNCHANGED comments
                  /\ edVideo'.video.title = op.target
                  /\ edVideo'.video.description = op.content
                  /\ \A f \in DOMAIN edVideo.video \ {"title", "description"} :
                       edVideo'.video[f] = edVideo.video[f]
       ]_vars

C23_Witness ==
  /\ inflight = {} /\ ~saving
  /\ success = "Video updated successfully!"
  /\ edVideo.t = "video" /\ edVideo.video.title = "New title"
  /\ edVideo.video.privacyStatus = "private"
  /\ \E i \in 1..Len(eventLog) : eventLog[i].event_type = "video_update_attempted"


\* ---------------------------------------------------------------------- C21
Elems(seq) == {seq[i] : i \in 1..Len(seq)}
Busy(kinds) == \E op \in inflight : op.kind \in kinds

\* C21: once a panel's fetches have concluded without an error, the data it
\* holds were obtained for the active video id: its notes are rows of that
\* video, its video snapshot has that id, and none of its comments is a
\* thread of another video
C21_DataIsForActiveVideo ==
  /\ (mounted /\ ~Busy({"fetch", "add"}) /\ error = "") =>
       \A n \in Elems(notes) : n.video_id = videoId
  /\ (cMounted /\ ~Busy({"comments"}) /\ cError = "") =>
       \A w \in PanelVideos \ {videoId} : Elems(comments) \cap Elems(CommentItems(w)) = {}
  /\ (vMounted /\ ~Busy({"details"}) /\ vError = "") =>
       (video.t = "video" => video.video.id = videoId)
  /\ (edMounted /\ ~Busy({"editor"}) /\ edError = "") =>
       (edVideo.t = "video" => edVideo.video.id = videoId)


\* ---------------------------------------------------------------------- C25
\* the client function called for `op` returned under outcome `o`
Returned(fn, op, o) == ClientResult(PanelCall(fn, op.target), o).t = "return"
\* ... and what it returned is a video
ReturnedVideo(op, o) ==
  LET r == ClientResult(PanelCall("getVideoDetails", op.target), o) IN
  r.t = "return" /\ r.val.t = "video"

\* a loading flag that is set is eventually cleared
FetchTerminates ==
  /\ loading ~> ~loading
  /\ cLoading ~> ~cLoading
  /\ vLoading ~> ~vLoading
  /\ edLoading ~> ~edLoading

\* the conclusion of a fetch clears the panel's loading flag, keeps the
\* error the handler decided on, and starts nothing
ConclusionClearsLoading ==
  \A op \in inflight : (op.phase = "log" /\ op \notin inflight') =>
    /\ op.kind = "fetch" => ~loading' /\ error' = error
    /\ op.kind = "comments" => ~cLoading' /\ cError' = cError
    /\ op.kind = "details" => ~vLoading' /\ vError' = vError
    /\ op.kind = "editor" => ~edLoading' /\ edError' = edError
    /\ inflight' = inflight \ {op}

\* only a mount effect issues a fetch
NoReissue == opCount' # opCount => PanelsMounted' = PanelsMounted + 1

\* notes and comments: no error when the call succeeded, a message when it
\* failed
ListFetchOutcome ==
  /\ \A op \in inflight, down, k \in BOOLEAN :
       (op.kind = "fetch" /\ NotesStoreAnswers(op, down, k)) =>
         IF down THEN error' # "" ELSE error' = ""
  /\ \A op \in inflight : \A o \in PanelFetchOutcomes(CommentItems(op.target)) :
       CommentsFetchSettles(op, o) =>
         IF Returned("getVideoComments", op, o) THEN cError' = "" ELSE cError' # ""

\* details and editor, as stated: no error whenever the call succeeded
VideoFetchOutcomeAsStated ==
  \A op \in inflight : \A o \in PanelFetchOutcomes(VideoItems(op.target)) :
    /\ DetailsFetchSettles(op, o) =>
         IF Returned("getVideoDetails", op, o) THEN vError' = "" ELSE vError' # ""
    /\ EditorFetchSettles(op, o) =>
         IF Returned("getVideoDetails", op, o) THEN edError' = "" ELSE edError' # ""

\* details and editor: no error when the call returned a video, a message
\* when it failed or returned none
VideoFetchOutcome ==
  \A op \in inflight : \A o \in PanelFetchOutcomes(VideoItems(op.target)) :
    /\ DetailsFetchSettles(op, o) =>
         IF ReturnedVideo(op, o) THEN vError' = "" /\ video'.t = "video" ELSE vError' # ""
    /\ EditorFetchSettles(op, o) =>
         IF ReturnedVideo(op, o) THEN edError' = "" /\ edVideo'.t = "video" ELSE edError' # ""

\* C25 as stated: every fetch that starts concludes with loading cleared,
\* ready when its call succeeded and errored with a non-empty message when
\* it failed, and the panel issues no request again
C25_Original ==
  /\ FetchTerminates
  /\ [][ConclusionClearsLoading /\ NoReissue /\ ListFetchOutcome
        /\ VideoFetchOutcomeAsStated]_vars

\* C25: every fetch that starts concludes with loading cleared; it is ready
\* when its call succeeded (for a video fetch: returned a video) and errored
\* with a non-empty message when the call failed or returned no video; the
\* panel issues no request again
C25_FetchConcludes ==
  /\ FetchTerminates
  /\ [][ConclusionClearsLoading /\ NoReissue /\ ListFetchOutcome /\ VideoFetchOutcome]_vars

\* the editor's fetch concluded after a call that succeeded without a video
C25_Witness ==
  /\ edMounted /\ ~edLoading /\ inflight = {}
  /\ edVideo.t = "undefined" /\ edError # ""

====
